---- MODULE Spec2Model ----
(***************************************************************************)
(* Pokedex (beyg1/Beto-Apps): the list screens' fetchPokemons, the          *)
(* paginated list screens' page transitions and the detail screen's        *)
(* fetchDetails, as state machines.                                        *)
(*                                                                         *)
(* Five list screens exist in the sources:                                 *)
(*   "basic"      src/pokedex/app/index.tsx                                *)
(*   "documented" src/unnamed/part_001, lines 1-248                        *)
(*   "skeleton"   src/unnamed/part_002, lines 1-675                        *)
(*   "animated"   src/unnamed/part_001, lines 250-905 (fade pagination)    *)
(*   "plain"      src/unnamed/part_002, lines 677-1205 (plain pagination)  *)
(* and one detail screen, src/pokedex/app/details.tsx.                     *)
(*                                                                         *)
(* JavaScript runs one task at a time: an action below is one task (a tap, *)
(* a timer, the arrival of a response) together with the promise           *)
(* continuations it triggers, which run before any other task.             *)
(***************************************************************************)
EXTENDS Integers, Sequences, FiniteSets, TLC

VARIABLES
  \* ---- list screen -----------------------------------------------------
  variant,       \* which list screen is mounted
  allPokemons,   \* useState<Pokemon[]>([]): the collection (pokemons / allPokemons)
  loading,       \* useState(true) of the list screen (FALSE where the screen has none)
  listPc,        \* position of fetchPokemons: "awaitList" | "awaitAll" | "success" | "error"
  results,       \* data.results of the list response: the references, in list order
  detailReq,     \* per reference index: "pending" | "settled" (the request on the wire)
  responses,     \* per reference index: what the server answered (history of the inputs)
  values,        \* Promise.all's result array, filled by index
  outOfOrder,    \* some request resolved while one of a lower index was still pending
  failedAt,      \* 0, or the reference index whose request rejected Promise.all
  consoleLog,    \* parity of the number of errors written by console.log / console.error
  unhandled,     \* number of promise rejections no handler caught
  \* ---- pagination (animated and plain) ----------------------------------
  currentPage,   \* useState(1)
  listOpacity,   \* useSharedValue(1): 0 (invisible) | 1 (between) | 2 (fully visible)
  anim,          \* animation running on listOpacity: [kind, target]
  timers,        \* pending setTimeout(..., 50) callbacks of the fade-in effect
  jsQueue,       \* runOnJS(setCurrentPage)(newPage) calls not yet run on the JS thread
  scrollOffset,  \* FlatList scroll position: 0 (top) | 1 (scrolled down)
  pageReq,       \* the last page transition requested: [kind, from, target]
  plainPage,     \* the page the plain screen is on after the same Next / Previous presses
  \* ---- navigation and detail screen --------------------------------------
  detailMounted, \* the details route is on the stack
  detailInst,    \* how many times the details route has been mounted
  params,        \* useLocalSearchParams(): a function from parameter names to values
  selected,      \* name of the list item whose Link was pressed last (0: none)
  pokemon,       \* useState<Pokemon | null>(null): 0 is null, else the record's name
  species,       \* useState<PokemonSpecies | null>(null): 0 is null, else the record's name
  detailsLoading,\* useState(true) of the detail screen
  error,         \* useState<string | null>(null): "null" or the message
  fetches,       \* the fetchDetails calls in flight: [inst, name, pc]
  nameChanges,   \* how many times params.name changed on a mounted detail screen
  lateResolved,  \* a response of fetchDetails arrived after its screen was unmounted
  \* ---- what the detail screen renders of its records -----------------------
  speciesData,   \* the species record as far as getFlavorText reads it
  pokemonData,   \* the pokemon record as far as the Physical Characteristics read it
  shown          \* the description, height and weight texts of the last render

listVars == <<variant, allPokemons, loading, listPc, results, detailReq, responses,
              values, outOfOrder, failedAt>>
logVars == <<consoleLog, unhandled>>
pageVars == <<currentPage, listOpacity, anim, timers, jsQueue, scrollOffset, pageReq,
              plainPage>>
viewVars == <<speciesData, pokemonData, shown>>
detailVars == <<detailMounted, detailInst, params, selected, pokemon, species,
                detailsLoading, error, fetches, nameChanges, lateResolved, viewVars>>
vars == <<listVars, logVars, pageVars, detailVars>>

----------------------------------------------------------------------------
(* Bounds of the model *)

\* at most this many references in the list response of the fetch-level model
MaxRefs == 3
\* at most this many items in the collection of the pagination model
MaxLen == 25
\* the details route is mounted and params.name changes at most this many times
\* altogether
MaxDetailEvents == 2
\* at most this many references in the list response of the model that draws
\* every shape and status of a response
MaxRecords == 1
\* at most this many flavor text entries in a species record
MaxEntries == 2
\* at most this many characters in a flavor text
MaxTextLen == 2
\* the largest height, in decimeters
MaxHeight == 30
\* the largest weight, in hectograms
MaxWeight == 700
\* at most this many fade-in timers are pending at once
MaxTimers == 2
\* at most this many runOnJS calls wait for the JS thread at once
MaxQueue == 2

----------------------------------------------------------------------------
(* Helpers *)

Max(a, b) == IF a >= b THEN a ELSE b
Min(a, b) == IF a <= b THEN a ELSE b

Variants == {"basic", "documented", "skeleton", "animated", "plain"}

\* the screens that keep a loading flag
HasLoading(v) == v \in {"skeleton", "animated", "plain"}

\* the screens that paginate
Paginated(v) == v \in {"animated", "plain"}

----------------------------------------------------------------------------
(* The upstream API, as far as the list screens read its answers *)

\* The i-th reference of the list response is named i: {name, url} of data.results[i-1].
Ref(i) == [name |-> i, url |-> i]

\* What a request can come back with.  kind: "network" (fetch rejects), "badjson"
\* (response.json() rejects), "noresults" (JSON without a results array), "list"
\* (JSON with results, n of them) and "json" (a detail record).  A detail
\* record's shape: sprites is "absent", "noOther" (no sprites.other), "noArtwork"
\* (no sprites.other["official-artwork"]) or "full"; art and front are "url", "null"
\* or "absent"; types is "list", "empty" or "absent".
\* status is the HTTP status of the response (0 where there is none): no list
\* screen reads response.ok or response.status.
Response(kind, name, sprites, art, front, types) ==
  [kind |-> kind, name |-> name, id |-> name, sprites |-> sprites, art |-> art,
   front |-> front, types |-> types,
   status |-> IF kind \in {"network", "none"} THEN 0 ELSE 200]

\* the same body sent with another HTTP status
WithStatus(r, st) == [r EXCEPT !.status = st]

NetworkError == Response("network", 0, "absent", "absent", "absent", "absent")
BadJson == Response("badjson", 0, "absent", "absent", "absent", "absent")
NoResults == Response("noresults", 0, "absent", "absent", "absent", "absent")
ListOf(n) == Response("list", n, "absent", "absent", "absent", "absent")
NoResponse == Response("none", 0, "absent", "absent", "absent", "absent")

\* the detail record of entity n with everything present
GoodBody(n) == Response("json", n, "full", "url", "url", "list")
\* a detail record of entity n that parses but has no sprites object
MalformedBody(n) == Response("json", n, "absent", "absent", "absent", "list")

\* the answers to the list request
ListOutcomes == {NetworkError, BadJson, NoResults} \cup {ListOf(n) : n \in 0..MaxRefs}
\* the answers to the detail request for the reference named n
DetailOutcomes(n) == {NetworkError, BadJson, GoodBody(n), MalformedBody(n)}

\* every shape of a detail record of entity n: art is read only through
\* sprites.other["official-artwork"], front only through sprites
DetailRecords(n) ==
  {Response("json", n, sp, art, front, ty) :
     sp \in {"full"}, art \in {"url", "null", "absent"},
     front \in {"url", "null", "absent"}, ty \in {"list", "empty", "absent"}}
  \cup {Response("json", n, sp, "absent", front, ty) :
     sp \in {"noOther", "noArtwork"},
     front \in {"url", "null", "absent"}, ty \in {"list", "empty", "absent"}}
  \cup {Response("json", n, "absent", "absent", "absent", ty) :
     ty \in {"list", "empty", "absent"}}

\* the HTTP statuses a response can carry
HttpStatuses == {200, 404, 500}

\* every answer to the list request: any body under any status
AllListOutcomes ==
  {NetworkError}
  \cup {WithStatus(r, st) :
        r \in {BadJson, NoResults} \cup {ListOf(n) : n \in 0..MaxRecords},
        st \in HttpStatuses}

\* every answer to the detail request for the reference named n
AllDetailOutcomes(n) ==
  {NetworkError}
  \cup {WithStatus(r, st) : r \in {BadJson} \cup DetailRecords(n), st \in HttpStatuses}

----------------------------------------------------------------------------
(* Entity Mapper: the object literal returned inside data.results.map *)

\* reading a property of undefined throws a TypeError
MapperThrows(v, d) ==
  \/ d.types = "absent"
  \/ d.sprites = "absent"
  \/ v # "basic" /\ d.sprites \in {"noOther", "noArtwork"}

\* a || b of JavaScript on the two image fields
FrontValue(d) ==
  CASE d.front = "url" -> "front"
    [] d.front = "null" -> "null"
    [] OTHER -> "undefined"

MapperImage(v, d) ==
  IF v = "basic" THEN FrontValue(d)
  ELSE IF d.art = "url" THEN "artwork" ELSE FrontValue(d)

\* id is 0 where the screen's mapper has no id field
Mapper(v, d) ==
  [id |-> IF v \in {"basic", "documented"} THEN 0 ELSE d.id,
   name |-> d.name,
   image |-> MapperImage(v, d),
   types |-> d.types]

\* the async callback of data.results.map rejects
DetailFails(v, d) == d.kind \in {"network", "badjson"} \/ MapperThrows(v, d)

----------------------------------------------------------------------------
(* Promise.all *)

\* an element of the result array that no promise has filled yet
NoValue == [id |-> 0, name |-> 0, image |-> "pending", types |-> "pending"]

Filled(vals) == {k \in DOMAIN vals : vals[k] # NoValue}

\* a bug: results collected in the order the promises resolve
StoreByArrival(vals, i, v) == [vals EXCEPT ![Cardinality(Filled(vals)) + 1] = v]

\* Promise.all resolves element i of its input into element i of its result
PromiseAllStore(vals, i, v) == [vals EXCEPT ![i] = v]

\* a bug: settled as soon as one promise is fulfilled
AnyFilled(vals) == Filled(vals) # {}

\* Promise.all is fulfilled when every element is
AllFilled(vals) == Filled(vals) = DOMAIN vals

----------------------------------------------------------------------------
(* fetchPokemons *)

\* a bug: the catch clause publishes what has been mapped so far
PartialCollection(cur, vals) ==
  [k \in 1..Cardinality(Filled(vals)) |->
     vals[CHOOSE j \in Filled(vals) : Cardinality({m \in Filled(vals) : m <= j}) = k]]

\* the catch clause leaves the collection as it is
CollectionAfterCatch(cur, vals) == cur

\* a bug: the catch clause forgets setLoading(false)
LoadingStuck(v) == HasLoading(v)

\* catch: setLoading(false), on the screens that have the flag
LoadingAfterCatch(v) == FALSE

\* a bug: the catch clause calls fetchPokemons() again
RetryFetchPokemons(i) ==
  /\ consoleLog' = 1 - consoleLog
  /\ unhandled' = unhandled
  /\ loading' = loading
  /\ allPokemons' = allPokemons
  /\ listPc' = "awaitList"
  /\ failedAt' = i

\* catch (e) { console.log(e); setLoading(false); }
CatchFetchPokemons(i) ==
  /\ consoleLog' = 1 - consoleLog
  /\ unhandled' = unhandled
  /\ loading' = LoadingAfterCatch(variant)
  /\ allPokemons' = CollectionAfterCatch(allPokemons, values)
  /\ listPc' = "error"
  /\ failedAt' = i

\* setAllPokemons(detailedPokemons); setLoading(false);
FinishFetchPokemons(detailed) ==
  /\ allPokemons' = detailed
  /\ loading' = FALSE
  /\ listPc' = "success"
  /\ UNCHANGED <<failedAt, consoleLog, unhandled>>

\* a bug: only the first detail request is issued, the others wait for it
SequentialListResponse(out) ==
  /\ listPc = "awaitList"
  /\ out.kind = "list"
  /\ out.name > 0
  /\ results' = [k \in 1..out.name |-> Ref(k)]
  /\ detailReq' = [k \in 1..out.name |-> IF k = 1 THEN "pending" ELSE "waiting"]
  /\ responses' = [k \in 1..out.name |-> NoResponse]
  /\ values' = [k \in 1..out.name |-> NoValue]
  /\ listPc' = "awaitAll"
  /\ UNCHANGED <<allPokemons, loading, failedAt, consoleLog, unhandled>>
  /\ UNCHANGED <<variant, outOfOrder, pageVars, detailVars>>

\* The list response arrives: the first two awaits, then data.results.map issues
\* every detail request and fetchPokemons waits on Promise.all.
ListResponse(out) ==
  /\ listPc = "awaitList"
  /\ IF out.kind # "list"
     THEN /\ CatchFetchPokemons(0)
          /\ UNCHANGED <<results, detailReq, responses, values>>
     ELSE /\ results' = [k \in 1..out.name |-> Ref(k)]
          /\ detailReq' = [k \in 1..out.name |-> "pending"]
          /\ responses' = [k \in 1..out.name |-> NoResponse]
          /\ values' = [k \in 1..out.name |-> NoValue]
          /\ IF out.name = 0
             THEN FinishFetchPokemons(<<>>)
             ELSE /\ listPc' = "awaitAll"
                  /\ UNCHANGED <<allPokemons, loading, failedAt, consoleLog, unhandled>>
  /\ UNCHANGED <<variant, outOfOrder, pageVars, detailVars>>

\* The response to the detail request of reference i arrives: the callback's two
\* awaits and its mapping, then Promise.all's bookkeeping and, when that settles
\* Promise.all, the rest of fetchPokemons.
DetailResponse(i, out) ==
  /\ i \in DOMAIN detailReq
  /\ detailReq[i] = "pending"
  /\ detailReq' = [detailReq EXCEPT ![i] = "settled"]
  /\ responses' = [responses EXCEPT ![i] = out]
  /\ outOfOrder' = (outOfOrder \/ \E k \in 1..(i - 1) : detailReq[k] = "pending")
  /\ values' = IF DetailFails(variant, out) THEN values
               ELSE PromiseAllStore(values, i, Mapper(variant, out))
  /\ IF listPc # "awaitAll"
     THEN UNCHANGED <<allPokemons, loading, listPc, failedAt, consoleLog, unhandled>>
     ELSE IF DetailFails(variant, out)
          THEN CatchFetchPokemons(i)
          ELSE IF AllFilled(values')
               THEN FinishFetchPokemons(values')
               ELSE UNCHANGED <<allPokemons, loading, listPc, failedAt,
                                consoleLog, unhandled>>
  /\ UNCHANGED <<variant, results, pageVars, detailVars>>

----------------------------------------------------------------------------
(* Pagination View: the values Index derives on every render *)

ITEMS_PER_PAGE == 10

\* Math.ceil(a / b) for integers a >= 0, b > 0
CeilDiv(a, b) == IF a % b = 0 THEN a \div b ELSE (a \div b) + 1

\* Array.prototype.slice(start, end): negative indices count from the end, both
\* are clamped to the length, and an empty range gives an empty array
SliceBound(len, k) == IF k < 0 THEN Max(len + k, 0) ELSE Min(k, len)

\* a bug: the end index taken as inclusive
SliceInclusive(s, start, end) ==
  LET from == SliceBound(Len(s), start)
      to == SliceBound(Len(s), end + 1)
  IN  [k \in 1..Max(to - from, 0) |-> s[from + k]]

Slice(s, start, end) ==
  LET from == SliceBound(Len(s), start)
      to == SliceBound(Len(s), end)
  IN  [k \in 1..Max(to - from, 0) |-> s[from + k]]

TotalPagesOf(coll) == CeilDiv(Len(coll), ITEMS_PER_PAGE)
StartIndexOf(page) == (page - 1) * ITEMS_PER_PAGE
EndIndexOf(page) == StartIndexOf(page) + ITEMS_PER_PAGE
CurrentPokemonsOf(coll, page) == Slice(coll, StartIndexOf(page), EndIndexOf(page))

totalPages == TotalPagesOf(allPokemons)
currentPokemons == CurrentPokemonsOf(allPokemons, currentPage)

\* what the list screen shows as cards: the FlatList / ScrollView items
ListRendered == IF HasLoading(variant) THEN ~loading ELSE TRUE
RenderedItems ==
  IF ~ListRendered THEN <<>>
  ELSE IF Paginated(variant) THEN currentPokemons ELSE allPokemons

\* What the list screen renders: the loading indicator, the cards, and the
\* error message, for which no list screen has any JSX.
ListScreenView ==
  [indicator |-> HasLoading(variant) /\ loading,
   cards |-> RenderedItems,
   message |-> "none"]

----------------------------------------------------------------------------
(* Navigation: the Link of a card *)

NoParams == [k \in {} |-> 0]

\* href of the card's Link: "/details" alone on the basic screen, elsewhere
\* {pathname: "/details", params: {name: pokemon.name}}
LinkParams(v, item) ==
  IF v = "basic" THEN NoParams ELSE [k \in {"name"} |-> item.name]

\* if (params.name): a name of the API is a non-empty string
HasName(p) == "name" \in DOMAIN p

----------------------------------------------------------------------------
(* Detail Loader: fetchDetails of the detail screen *)

NullError == [text |-> "null", status |-> 0]

\* the answers to the pokemon and to the pokemon-species request
Statuses == {404, 500}
DetailsOutcomes ==
  {[kind |-> "network", status |-> 0], [kind |-> "badjson", status |-> 200],
   [kind |-> "json", status |-> 200]}
  \cup {[kind |-> "http", status |-> st] : st \in Statuses}

\* a bug: the catch clause stores no message
NoMessage(phase, out) == NullError

\* a bug: the message names the phase but not the status
MessageWithoutStatus(phase, out) ==
  CASE out.kind = "http" ->
         [text |-> IF phase = "pokemon" THEN "Failed to fetch Pokemon: "
                   ELSE "Failed to fetch species: ",
          status |-> 0]
    [] out.kind = "network" -> [text |-> "Network request failed", status |-> 0]
    [] OTHER -> [text |-> "JSON Parse error", status |-> 0]

\* err.message of what the try block throws in the given phase
ErrorMessage(phase, out) ==
  CASE out.kind = "http" ->
         [text |-> IF phase = "pokemon" THEN "Failed to fetch Pokemon: "
                   ELSE "Failed to fetch species: ",
          status |-> out.status]
    [] out.kind = "network" -> [text |-> "Network request failed", status |-> 0]
    [] OTHER -> [text |-> "JSON Parse error", status |-> 0]

\* useState(true)
InitialDetailsLoading == TRUE

\* a bug: the record is rendered whenever there is one
RecordBeforeError(isLoading, err, record) ==
  IF isLoading THEN "loading"
  ELSE IF record # 0 THEN "record"
  ELSE "error"

\* what Details returns: if (loading) the indicator; if (error || !pokemon) the
\* error text; else the record
DetailViewOf(isLoading, err, record) ==
  IF isLoading THEN "loading"
  ELSE IF err # NullError \/ record = 0 THEN "error"
  ELSE "record"

DetailView == DetailViewOf(detailsLoading, error, pokemon)

\* finally { setLoading(false); }
LoadingAfterFinally == FALSE

\* a bug: a state update reaches whatever screen is there
AnyScreen(f) == TRUE

\* React drops a state update of a component that is no longer mounted
Live(f) == detailMounted /\ f.inst = detailInst

\* a bug: both requests are issued at once
StartBothRequests(inst, gen, name) ==
  /\ detailsLoading' = TRUE
  /\ error' = NullError
  /\ fetches' = fetches \cup {[inst |-> inst, gen |-> gen, name |-> name, pc |-> pc] :
                                pc \in {"pokemon", "species"}}

\* fetchDetails(name) up to its first await: setLoading(true); setError(null); fetch(...)
StartFetchDetails(inst, gen, name) ==
  /\ detailsLoading' = TRUE
  /\ error' = NullError
  /\ fetches' = fetches \cup {[inst |-> inst, gen |-> gen, name |-> name, pc |-> "pokemon"]}

\* A card's Link is pressed: the details route is pushed, Details mounts with its
\* initial state and its effect runs:
\* useEffect(() => { if (params.name) fetchDetails(params.name) }, [params.name])
SelectItem(i) ==
  /\ ~detailMounted
  /\ detailInst + nameChanges < MaxDetailEvents
  /\ i \in DOMAIN RenderedItems
  /\ detailMounted' = TRUE
  /\ detailInst' = detailInst + 1
  /\ selected' = RenderedItems[i].name
  /\ params' = LinkParams(variant, RenderedItems[i])
  /\ pokemon' = 0
  /\ species' = 0
  /\ IF HasName(params')
     THEN StartFetchDetails(detailInst', nameChanges, params'["name"])
     ELSE /\ detailsLoading' = InitialDetailsLoading
          /\ error' = NullError
          /\ UNCHANGED fetches
  /\ UNCHANGED <<nameChanges, lateResolved, viewVars, listVars, logVars, pageVars>>

\* The route's name parameter changes while Details stays mounted: the effect
\* runs again.
ChangeName(n) ==
  /\ detailMounted
  /\ detailInst + nameChanges < MaxDetailEvents
  /\ n \in 1..Len(allPokemons)
  /\ ~(HasName(params) /\ params["name"] = n)
  /\ nameChanges' = nameChanges + 1
  /\ params' = [k \in {"name"} |-> n]
  /\ StartFetchDetails(detailInst, nameChanges', n)
  /\ UNCHANGED <<detailMounted, detailInst, selected, pokemon, species,
                 lateResolved, viewVars, listVars, logVars, pageVars>>

\* Back: the details route is popped and the component's state is discarded; its
\* requests stay on the wire.
GoBack ==
  /\ detailMounted
  /\ detailMounted' = FALSE
  /\ params' = NoParams
  /\ pokemon' = 0
  /\ species' = 0
  /\ detailsLoading' = FALSE
  /\ error' = NullError
  /\ UNCHANGED <<detailInst, selected, fetches, nameChanges, lateResolved, viewVars,
                 listVars, logVars, pageVars>>

\* catch (err) { setError(...); console.error(...) } finally { setLoading(false) }
CatchFetchDetails(f, phase, out) ==
  /\ error' = IF Live(f) THEN ErrorMessage(phase, out) ELSE error
  /\ detailsLoading' = IF Live(f) THEN LoadingAfterFinally ELSE detailsLoading
  /\ consoleLog' = 1 - consoleLog
  /\ unhandled' = unhandled
  /\ fetches' = fetches \ {f}

\* The pokemon response of a fetchDetails call arrives.
PokemonResponse(f, out) ==
  /\ f \in fetches
  /\ f.pc = "pokemon"
  /\ IF out.kind = "json"
     THEN /\ pokemon' = IF Live(f) THEN f.name ELSE pokemon
          /\ fetches' = (fetches \ {f}) \cup {[f EXCEPT !.pc = "species"]}
          /\ UNCHANGED <<error, detailsLoading, consoleLog, unhandled>>
     ELSE /\ CatchFetchDetails(f, "pokemon", out)
          /\ UNCHANGED pokemon
  /\ lateResolved' = (lateResolved \/ ~Live(f))
  /\ UNCHANGED <<detailMounted, detailInst, params, selected, species, nameChanges,
                 viewVars, listVars, pageVars>>

\* The species response of a fetchDetails call arrives.
SpeciesResponse(f, out) ==
  /\ f \in fetches
  /\ f.pc = "species"
  /\ IF out.kind = "json"
     THEN /\ species' = IF Live(f) THEN f.name ELSE species
          /\ detailsLoading' = IF Live(f) THEN LoadingAfterFinally ELSE detailsLoading
          /\ fetches' = fetches \ {f}
          /\ UNCHANGED <<error, consoleLog, unhandled>>
     ELSE /\ CatchFetchDetails(f, "species", out)
          /\ UNCHANGED species
  /\ lateResolved' = (lateResolved \/ ~Live(f))
  /\ UNCHANGED <<detailMounted, detailInst, params, selected, pokemon, nameChanges,
                 viewVars, listVars, pageVars>>

----------------------------------------------------------------------------
(* Detail view: what the rendered detail screen derives from its records *)

\* A text is a sequence of characters; FormFeed is "\f" and Newline is "\n".
FormFeed == "FF"
Newline == "NL"
Space == " "
Chars == {"a", FormFeed, Newline}

\* the sequences over S of length at most n
SeqsUpTo(S, n) == UNION {[1..k -> S] : k \in 0..n}

Texts == SeqsUpTo(Chars, MaxTextLen)
Entries == [language : {"en", "ja"}, flavor_text : Texts]

\* species: null, a record without flavor_text_entries, or a record with them
NullSpecies == [loaded |-> FALSE, hasEntries |-> FALSE, flavor_text_entries |-> <<>>]
SpeciesRecords ==
  {NullSpecies, [loaded |-> TRUE, hasEntries |-> FALSE, flavor_text_entries |-> <<>>]}
  \cup {[loaded |-> TRUE, hasEntries |-> TRUE, flavor_text_entries |-> es] :
          es \in SeqsUpTo(Entries, MaxEntries)}

NullPokemon == [loaded |-> FALSE, height |-> 0, weight |-> 0]
PokemonRecords ==
  {[loaded |-> TRUE, height |-> h, weight |-> w] : h \in 0..MaxHeight, w \in 0..MaxWeight}

\* a bug: every control character is left in
ReplaceNothing(text) == text

\* flavor_text.replace(/\f/g, ' ')
ReplaceFormFeed(text) ==
  [k \in 1..Len(text) |-> IF text[k] = FormFeed THEN Space ELSE text[k]]

\* a bug: the last matching entry
FindLast(es, lang) ==
  LET hits == {k \in 1..Len(es) : es[k].language = lang}
  IN  IF hits = {} THEN 0 ELSE CHOOSE k \in hits : \A j \in hits : j <= k

\* Array.prototype.find(entry => entry.language.name === lang): the index of the
\* first match, 0 for undefined
Find(es, lang) ==
  LET hits == {k \in 1..Len(es) : es[k].language = lang}
  IN  IF hits = {} THEN 0 ELSE CHOOSE k \in hits : \A j \in hits : k <= j

\* getFlavorText of the screen whose species state is sp
getFlavorText(sp) ==
  IF ~sp.loaded \/ ~sp.hasEntries THEN <<>>
  ELSE LET englishEntry == Find(sp.flavor_text_entries, "en")
       IN  IF englishEntry # 0
           THEN ReplaceFormFeed(sp.flavor_text_entries[englishEntry].flavor_text)
           ELSE <<>>

DigitChars == <<"0", "1", "2", "3", "4", "5", "6", "7", "8", "9">>

\* the decimal digits of a natural number
RECURSIVE DigitsOf(_)
DigitsOf(n) ==
  IF n < 10 THEN <<DigitChars[n + 1]>>
  ELSE Append(DigitsOf(n \div 10), DigitChars[(n % 10) + 1])

\* value / 10 for an integer value: a number with at most one decimal digit
DivideBy10(value) == [units |-> value \div 10, tenths |-> value % 10]

\* a bug: String(x), which drops a zero fraction
NumberToString(x) ==
  IF x.tenths = 0 THEN DigitsOf(x.units)
  ELSE DigitsOf(x.units) \o <<".", DigitChars[x.tenths + 1]>>

\* x.toFixed(1) of a number with at most one decimal digit
ToFixed1(x) == DigitsOf(x.units) \o <<".", DigitChars[x.tenths + 1]>>

NotShown == [rendered |-> FALSE, flavor |-> <<>>, height |-> <<>>, weight |-> <<>>]

\* The detail screen renders its records: {getFlavorText()},
\* {(pokemon.height / 10).toFixed(1)} m and {(pokemon.weight / 10).toFixed(1)} kg
Render ==
  /\ ~shown.rendered
  /\ pokemonData.loaded
  /\ shown' = [rendered |-> TRUE,
               flavor |-> getFlavorText(speciesData),
               height |-> ToFixed1(DivideBy10(pokemonData.height)) \o <<" ", "m">>,
               weight |-> ToFixed1(DivideBy10(pokemonData.weight)) \o <<" ", "k", "g">>]
  /\ UNCHANGED <<speciesData, pokemonData, detailMounted, detailInst, params, selected,
                 pokemon, species, detailsLoading, error, fetches, nameChanges,
                 lateResolved, listVars, logVars, pageVars>>

----------------------------------------------------------------------------
(* The list screens with their fetch, and the detail screen behind their cards *)

PageInit ==
  /\ currentPage = 1
  /\ listOpacity = 2
  /\ anim = [kind |-> "none", target |-> 0]
  /\ timers = 0
  /\ jsQueue = <<>>
  /\ scrollOffset = 0
  /\ pageReq = [kind |-> "none", from |-> 0, target |-> 0]
  /\ plainPage = 1

DetailInit ==
  /\ detailMounted = FALSE
  /\ detailInst = 0
  /\ params = NoParams
  /\ selected = 0
  /\ pokemon = 0
  /\ species = 0
  /\ detailsLoading = FALSE
  /\ error = NullError
  /\ fetches = {}
  /\ nameChanges = 0
  /\ lateResolved = FALSE
  /\ speciesData = NullSpecies
  /\ pokemonData = NullPokemon
  /\ shown = NotShown

\* Index has mounted and its effect has called fetchPokemons, which waits for
\* the list response.
ListInit ==
  /\ variant \in Variants
  /\ allPokemons = <<>>
  /\ loading = HasLoading(variant)
  /\ listPc = "awaitList"
  /\ results = <<>>
  /\ detailReq = <<>>
  /\ responses = <<>>
  /\ values = <<>>
  /\ outOfOrder = FALSE
  /\ failedAt = 0
  /\ consoleLog = 0
  /\ unhandled = 0

Init == ListInit /\ PageInit /\ DetailInit

Next ==
  \/ \E out \in ListOutcomes : ListResponse(out)
  \/ \E i \in 1..MaxRefs : \E out \in DetailOutcomes(i) : DetailResponse(i, out)
  \/ \E i \in 1..MaxRefs : SelectItem(i)
  \/ \E n \in 1..MaxRefs : ChangeName(n)
  \/ GoBack
  \/ \E f \in fetches : \E out \in DetailsOutcomes : PokemonResponse(f, out)
  \/ \E f \in fetches : \E out \in DetailsOutcomes : SpeciesResponse(f, out)

Spec == Init /\ [][Next]_vars

----------------------------------------------------------------------------
(* The list screens' fetch alone, under every status and every record shape *)

NextFetch ==
  \/ \E out \in AllListOutcomes : ListResponse(out)
  \/ \E i \in 1..MaxRecords : \E out \in AllDetailOutcomes(i) : DetailResponse(i, out)

SpecFetch == Init /\ [][NextFetch]_vars

----------------------------------------------------------------------------
(* The detail screen with its records loaded, rendering them *)

\* the list screen behind it has loaded one reference
LoadedListInit ==
  /\ variant = "documented"
  /\ allPokemons = <<Mapper(variant, GoodBody(1))>>
  /\ loading = FALSE
  /\ listPc = "success"
  /\ results = <<Ref(1)>>
  /\ detailReq = <<"settled">>
  /\ responses = <<GoodBody(1)>>
  /\ values = allPokemons
  /\ outOfOrder = FALSE
  /\ failedAt = 0
  /\ consoleLog = 0
  /\ unhandled = 0

\* fetchDetails has ended without an error; the two records are drawn one at a
\* time, the other one fixed
LoadedDetailInit ==
  /\ detailMounted = TRUE
  /\ detailInst = 1
  /\ params = [k \in {"name"} |-> 1]
  /\ selected = 1
  /\ pokemon = 1
  /\ species = 1
  /\ detailsLoading = FALSE
  /\ error = NullError
  /\ fetches = {}
  /\ nameChanges = 0
  /\ lateResolved = FALSE
  /\ \/ /\ speciesData \in SpeciesRecords
        /\ pokemonData = [loaded |-> TRUE, height |-> 7, weight |-> 690]
     \/ /\ speciesData = NullSpecies
        /\ pokemonData \in PokemonRecords
  /\ shown = NotShown

InitView == LoadedListInit /\ PageInit /\ LoadedDetailInit

NextView == Render

SpecView == InitView /\ [][NextView]_vars

----------------------------------------------------------------------------
(* The detail screen alone, opened from a list screen that has loaded *)

\* fetchPokemons has ended with a record for each of MaxRefs references
FullListInit ==
  /\ variant \in Variants
  /\ allPokemons = [k \in 1..MaxRefs |-> Mapper(variant, GoodBody(k))]
  /\ loading = FALSE
  /\ listPc = "success"
  /\ results = [k \in 1..MaxRefs |-> Ref(k)]
  /\ detailReq = [k \in 1..MaxRefs |-> "settled"]
  /\ responses = [k \in 1..MaxRefs |-> GoodBody(k)]
  /\ values = allPokemons
  /\ outOfOrder = FALSE
  /\ failedAt = 0
  /\ consoleLog = 0
  /\ unhandled = 0

InitDetails == FullListInit /\ PageInit /\ DetailInit

NextDetails ==
  \/ \E i \in 1..MaxRefs : SelectItem(i)
  \/ \E n \in 1..MaxRefs : ChangeName(n)
  \/ GoBack
  \/ \E f \in fetches : \E out \in DetailsOutcomes : PokemonResponse(f, out)
  \/ \E f \in fetches : \E out \in DetailsOutcomes : SpeciesResponse(f, out)

SpecDetails == InitDetails /\ [][NextDetails]_vars

----------------------------------------------------------------------------
(* The paginated list screens: page transitions, with the fetch as one step *)

NoAnim == [kind |-> "none", target |-> 0]

\* useEffect(() => { if (listOpacity.value === 0) { scrollToOffset(0);
\* setTimeout(fade in, 50) } }, [currentPokemons]): currentPokemons is a new array
\* on every render, so the effect runs after every render of the animated screen.
EffectFires(v, opacity) == v = "animated" /\ opacity = 0

RenderEffect ==
  IF EffectFires(variant, listOpacity)
  THEN /\ scrollOffset' = 0
       /\ timers' = timers + 1
  ELSE UNCHANGED <<scrollOffset, timers>>

\* a bug: the fetch runs again and appends to the collection
FetchAppends(n) ==
  /\ listPc \in {"awaitList", "success"}
  /\ allPokemons' = allPokemons \o [k \in 1..n |-> Mapper(variant, GoodBody(k))]
  /\ loading' = FALSE
  /\ listPc' = "success"
  /\ UNCHANGED <<variant, results, detailReq, responses, values, outOfOrder, failedAt,
                 logVars, pageVars, detailVars>>

\* Promise.all resolved: setAllPokemons(detailedPokemons); setLoading(false);
FetchSucceeds(n) ==
  /\ listPc = "awaitList"
  /\ allPokemons' = [k \in 1..n |-> Mapper(variant, GoodBody(k))]
  /\ loading' = FALSE
  /\ listPc' = "success"
  /\ RenderEffect
  /\ UNCHANGED <<variant, results, detailReq, responses, values, outOfOrder, failedAt,
                 logVars, currentPage, listOpacity, anim, jsQueue, pageReq, plainPage, detailVars>>

\* a request of the fetch failed: the catch clause
FetchFails ==
  /\ listPc = "awaitList"
  /\ CatchFetchPokemons(0)
  /\ RenderEffect
  /\ UNCHANGED <<variant, results, detailReq, responses, values, outOfOrder,
                 currentPage, listOpacity, anim, jsQueue, pageReq, plainPage, detailVars>>

\* a bug: changePage without its guard
AnyPage(newPage, total) == TRUE

\* if (newPage < 1 || newPage > totalPages) return;
PageInRange(newPage, total) == ~(newPage < 1 \/ newPage > total)

\* changePage(newPage) of the animated screen: the guard, then
\* listOpacity.value = withTiming(0, ..., finished => finished && runOnJS(setCurrentPage)(newPage)).
\* Assigning an animation cancels the one that runs; a cancelled fade-out calls its
\* callback with finished = false, which does nothing.
ChangePage(newPage) ==
  IF PageInRange(newPage, totalPages)
  THEN /\ anim' = [kind |-> "fadeOut", target |-> newPage]
       /\ pageReq' = [kind |-> "accepted", from |-> currentPage, target |-> newPage]
       /\ UNCHANGED <<currentPage, listOpacity, timers, jsQueue, scrollOffset>>
  ELSE /\ pageReq' = [kind |-> "rejected", from |-> currentPage, target |-> newPage]
       /\ UNCHANGED <<currentPage, listOpacity, anim, timers, jsQueue, scrollOffset>>

\* goToNextPage / goToPrevPage of the plain screen: if (currentPage < totalPages)
\* setCurrentPage(currentPage + 1); if (currentPage > 1) setCurrentPage(currentPage - 1)
PlainAccepts(dir, page, total) == IF dir = 1 THEN page < total ELSE page > 1

PlainGoTo(dir) ==
  IF PlainAccepts(dir, currentPage, totalPages)
  THEN /\ currentPage' = currentPage + dir
       /\ pageReq' = [kind |-> "accepted", from |-> currentPage,
                      target |-> currentPage + dir]
       /\ UNCHANGED <<listOpacity, anim, timers, jsQueue, scrollOffset>>
  ELSE /\ pageReq' = [kind |-> "rejected", from |-> currentPage,
                      target |-> currentPage + dir]
       /\ UNCHANGED <<currentPage, listOpacity, anim, timers, jsQueue, scrollOffset>>

\* the page of the plain screen after goToNextPage (dir = 1) or goToPrevPage
\* (dir = -1) from the given page
PlainPageAfter(dir, page, total) ==
  IF PlainAccepts(dir, page, total) THEN page + dir ELSE page

\* The Next button is pressed: disabled={currentPage === totalPages}
TapNext ==
  /\ Paginated(variant)
  /\ ListRendered
  /\ currentPage # totalPages
  /\ IF variant = "animated" THEN ChangePage(currentPage + 1) ELSE PlainGoTo(1)
  /\ plainPage' = PlainPageAfter(1, plainPage, totalPages)
  /\ UNCHANGED <<listVars, logVars, detailVars>>

\* The Previous button is pressed: disabled={currentPage === 1}
TapPrev ==
  /\ Paginated(variant)
  /\ ListRendered
  /\ currentPage # 1
  /\ IF variant = "animated" THEN ChangePage(currentPage - 1) ELSE PlainGoTo(-1)
  /\ plainPage' = PlainPageAfter(-1, plainPage, totalPages)
  /\ UNCHANGED <<listVars, logVars, detailVars>>

\* The user scrolls the list down.
ScrollDown ==
  /\ Paginated(variant)
  /\ ListRendered
  /\ Len(currentPokemons) > 0
  /\ scrollOffset = 0
  /\ scrollOffset' = 1
  /\ UNCHANGED <<currentPage, listOpacity, anim, timers, jsQueue, pageReq, plainPage,
                 listVars, logVars, detailVars>>

\* A frame of the running animation that does not end it.
AnimFrame ==
  /\ anim.kind # "none"
  /\ listOpacity = IF anim.kind = "fadeOut" THEN 2 ELSE 0
  /\ listOpacity' = 1
  /\ UNCHANGED <<currentPage, anim, timers, jsQueue, scrollOffset, pageReq, plainPage,
                 listVars, logVars, detailVars>>

\* The last frame of the fade-out: the value is 0 and the callback runs with
\* finished = true, handing setCurrentPage(newPage) to the JS thread.
FadeOutEnds ==
  /\ anim.kind = "fadeOut"
  /\ Len(jsQueue) < MaxQueue
  /\ listOpacity' = 0
  /\ anim' = NoAnim
  /\ jsQueue' = Append(jsQueue, anim.target)
  /\ UNCHANGED <<currentPage, timers, scrollOffset, pageReq, plainPage,
                 listVars, logVars, detailVars>>

\* The last frame of the fade-in.
FadeInEnds ==
  /\ anim.kind = "fadeIn"
  /\ listOpacity' = 2
  /\ anim' = NoAnim
  /\ UNCHANGED <<currentPage, timers, jsQueue, scrollOffset, pageReq, plainPage,
                 listVars, logVars, detailVars>>

\* The JS thread runs setCurrentPage(newPage): a new value renders the screen
\* and runs the effect, the same value renders nothing.
RunSetCurrentPage ==
  /\ jsQueue # <<>>
  /\ jsQueue' = Tail(jsQueue)
  /\ currentPage' = Head(jsQueue)
  /\ IF Head(jsQueue) # currentPage
     THEN /\ EffectFires(variant, listOpacity) => timers < MaxTimers
          /\ RenderEffect
     ELSE UNCHANGED <<scrollOffset, timers>>
  /\ UNCHANGED <<listOpacity, anim, pageReq, plainPage, listVars, logVars, detailVars>>

\* The 50 ms timer of the effect fires: listOpacity.value = withTiming(1, ...)
TimerFires ==
  /\ timers > 0
  /\ timers' = timers - 1
  /\ anim' = [kind |-> "fadeIn", target |-> 0]
  /\ UNCHANGED <<currentPage, listOpacity, jsQueue, scrollOffset, pageReq, plainPage,
                 listVars, logVars, detailVars>>

PageListInit ==
  /\ ListInit
  /\ Paginated(variant)

InitPage == PageListInit /\ PageInit /\ DetailInit

NextPage ==
  \/ \E n \in 0..MaxLen : FetchSucceeds(n)
  \/ FetchFails
  \/ TapNext
  \/ TapPrev
  \/ ScrollDown
  \/ AnimFrame
  \/ FadeOutEnds
  \/ FadeInEnds
  \/ RunSetCurrentPage
  \/ TimerFires

SpecPage == InitPage /\ [][NextPage]_vars

----------------------------------------------------------------------------
(* Claims about the collection fetch *)

\* C1: a successful fetchPokemons stores exactly one summary per reference, and
\* the i-th stored summary is the one mapped from the answer to the i-th
\* reference's request, in whatever order the requests completed.
C1_OrderPreserved ==
  listPc = "success" =>
    /\ Len(allPokemons) = Len(results)
    /\ \A i \in 1..Len(results) :
         /\ allPokemons[i] = Mapper(variant, responses[i])
         /\ allPokemons[i].name = results[i].name

\* C1 witness: a fetch of at least two references succeeded although a request
\* resolved before one of a lower index.
C1_Witness == listPc = "success" /\ Len(results) >= 2 /\ outOfOrder

SomeDetailFailed ==
  \E i \in DOMAIN responses :
    responses[i] # NoResponse /\ DetailFails(variant, responses[i])

\* C2: once any detail request has failed, the fetch has ended in failure, the
\* stored collection is empty and the view shows no card.
C2_AllOrNothing ==
  SomeDetailFailed => listPc = "error" /\ allPokemons = <<>> /\ RenderedItems = <<>>

\* C2 witness: a detail request failed after another one had been mapped.
C2_Witness == listPc = "error" /\ failedAt # 0 /\ Filled(values) # {}

----------------------------------------------------------------------------
(* Claims about pagination *)

Quiescent == anim.kind = "none" /\ jsQueue = <<>> /\ timers = 0

\* C3: a page transition whose target is below 1 or above totalPages leaves
\* currentPage unchanged, and a transition whose target is within 1..totalPages
\* replaces currentPage with the target (on the animated screen: once its
\* animations, timers and queued calls have run).
C3_PageTransition ==
  /\ pageReq.kind = "rejected" => currentPage = pageReq.from
  /\ pageReq.kind = "accepted" /\ Quiescent => currentPage = pageReq.target

\* max(1, ceil(len / size)): the least k >= 1 with k * size >= len
SpecTotalPages(len, size) == CHOOSE k \in 1..(len + 1) :
  k * size >= len /\ (k = 1 \/ (k - 1) * size < len)

\* C4: on the rendered list, totalPages = max(1, ceil(L / 10)) for every
\* collection length L, and an empty collection gives totalPages = 1 and an
\* empty visible slice.
C4_TotalPages ==
  ListRendered =>
    /\ totalPages = SpecTotalPages(Len(allPokemons), ITEMS_PER_PAGE)
    /\ allPokemons = <<>> => totalPages = 1 /\ currentPokemons = <<>>

\* C5: for every page p in 1..totalPages the visible slice is the elements at
\* 0-based positions (p-1)*10 up to but excluding p*10, in collection order;
\* every page but the last has 10 elements, the last has L - (totalPages-1)*10.
C5_VisibleSlice ==
  \A p \in 1..totalPages :
    LET slice == CurrentPokemonsOf(allPokemons, p)
        size == IF p < totalPages THEN ITEMS_PER_PAGE
                ELSE Len(allPokemons) - (totalPages - 1) * ITEMS_PER_PAGE
    IN  /\ DOMAIN slice = 1..size
        /\ \A k \in 1..size : slice[k] = allPokemons[(p - 1) * ITEMS_PER_PAGE + k]
        /\ p = currentPage => currentPokemons = slice

\* C5 witness: 25 items, three pages, and page 3 shows 5 of them.
C5_Witness ==
  /\ Len(allPokemons) = 25
  /\ totalPages = 3
  /\ currentPage = 3
  /\ Len(currentPokemons) = 5

----------------------------------------------------------------------------
(* Claims about the loaders' states and errors *)

PendingDetails(req) == {k \in DOMAIN req : req[k] = "pending"}
StartedFetches == {f \in fetches' \ fetches : f.pc = "pokemon"}
EndedFetches == fetches \ fetches'
ListPcSteps ==
  {<<"awaitList", "awaitAll">>, <<"awaitList", "success">>, <<"awaitList", "error">>,
   <<"awaitAll", "success">>, <<"awaitAll", "error">>}

C6_Step ==
  /\ listPc' # listPc => <<listPc, listPc'>> \in ListPcSteps
  /\ loading' => loading
  /\ listPc # "awaitList" => PendingDetails(detailReq') \subseteq PendingDetails(detailReq)
  /\ (detailsLoading' /\ ~detailsLoading) \/ StartedFetches # {}
       => detailInst' # detailInst \/ params' # params
  /\ detailMounted' /\ (detailInst' # detailInst \/ params' # params) => detailsLoading'

\* C6: each loader goes loading -> (success | error) and never back: the list
\* fetch never returns to an earlier position, the list's loading flag never
\* returns to true and no list request is issued again; the detail screen's
\* loading flag turns true, and a fetchDetails call starts, only in a step that
\* mounts the screen or changes the mounted screen's parameters, and such a step
\* leaves it loading.
C6_NoRetry == [][C6_Step]_vars

\* C6 witness: the list loaded, and the detail screen behind one of its cards
\* ended in the error state with no request left.
C6_Witness ==
  /\ listPc = "success"
  /\ detailMounted
  /\ ~detailsLoading
  /\ error # NullError
  /\ fetches = {}

C7_Step ==
  consoleLog' # consoleLog =>
    /\ listPc' # listPc => listPc' = "error" /\ (HasLoading(variant) => ~loading')
    /\ \A f \in EndedFetches : Live(f) => ~detailsLoading'
    /\ PendingDetails(detailReq') \subseteq PendingDetails(detailReq)
    /\ fetches' \subseteq fetches

\* C7: the step in which a list fetch or a detail fetch fails (it logs the error)
\* leaves the owning screen's loading flag false and issues no request.
C7_ErrorEndsLoading == [][C7_Step]_vars

\* C7 witness: a detail request of the list fetch failed on a screen that has a
\* loading flag, and the flag is false.
C7_Witness == listPc = "error" /\ failedAt # 0 /\ HasLoading(variant) /\ ~loading

EmptySuccessView == [indicator |-> FALSE, cards |-> <<>>, message |-> "none"]
DetailMessages ==
  {"Failed to fetch Pokemon: ", "Failed to fetch species: ", "Network request failed",
   "JSON Parse error"}

C8_OriginalStep ==
  consoleLog' # consoleLog =>
    /\ unhandled' = unhandled
    /\ listPc' # listPc =>
         /\ ListScreenView'.message # "none"
         /\ ListScreenView' # EmptySuccessView
    /\ \A f \in EndedFetches : Live(f) => error'.text \in DetailMessages

C8_AmendedStep ==
  consoleLog' # consoleLog =>
    /\ unhandled' = unhandled
    /\ listPc' # listPc =>
         /\ listPc' = "error"
         /\ allPokemons' = <<>>
         /\ ListScreenView' = EmptySuccessView
    /\ \A f \in EndedFetches : Live(f) => error'.text \in DetailMessages

C9_IdleWithoutName ==
  detailMounted /\ ~HasName(params) =>
    /\ ~detailsLoading
    /\ ~\E f \in fetches : f.inst = detailInst

\* C10: the step that opens the detail screen from a card hands over exactly one
\* parameter, name, whose value is the selected entity's name.
C10_LinkCarriesName ==
  [][detailInst' # detailInst =>
       DOMAIN params' = {"name"} /\ params'["name"] = selected']_vars

----------------------------------------------------------------------------
(* Claims about the status checks of fetchDetails *)

\* a response whose ok is false
HttpStatus(st) == [kind |-> "http", status |-> st]

\* the fetchDetails call f has no request left
Aborted(f) == ~\E g \in fetches' : g.inst = f.inst /\ g.gen = f.gen

C11_Step ==
  \A f \in fetches \ fetches' : \A st \in Statuses :
    /\ Live(f) /\ PokemonResponse(f, HttpStatus(st)) =>
         /\ error' = [text |-> "Failed to fetch Pokemon: ", status |-> st]
         /\ ~detailsLoading'
         /\ pokemon' = pokemon
         /\ species' = species
         /\ Aborted(f)
    /\ Live(f) /\ SpeciesResponse(f, HttpStatus(st)) =>
         /\ error' = [text |-> "Failed to fetch species: ", status |-> st]
         /\ ~detailsLoading'
         /\ pokemon' = pokemon
         /\ species' = species
         /\ Aborted(f)

\* C11: a step in which the pokemon response, or the species response, of a
\* fetchDetails call of the mounted screen arrives with a non-success status
\* ends that call: no further request of it is left, loading is false, neither
\* record is stored and the error is the message of that phase with that status.
C11_StatusChecked == [][C11_Step]_vars

\* C11 witness: the pokemon request was answered with status 500 and the screen
\* holds the pokemon phase's message with 500, no record and no request.
C11_Witness ==
  /\ detailMounted
  /\ ~detailsLoading
  /\ error = [text |-> "Failed to fetch Pokemon: ", status |-> 500]
  /\ pokemon = 0
  /\ fetches = {}

----------------------------------------------------------------------------
(* Claims about statuses and record shapes in the collection fetch *)

\* a network error, or a response with a non-success status
Unsuccessful(out) == out.kind = "network" \/ out.status \notin 200..299

C12_Step ==
  /\ \A out \in AllListOutcomes :
       Unsuccessful(out) /\ ListResponse(out) => listPc' = "error"
  /\ \A i \in DOMAIN detailReq : \A out \in AllDetailOutcomes(i) :
       listPc = "awaitAll" /\ Unsuccessful(out) /\ DetailResponse(i, out)
         => listPc' = "error"

\* C12: a step in which the list request, or a detail request of a fetch that
\* has not ended yet, meets a network error or a non-success status ends the
\* fetch in its error outcome.
C12_StatusFails == [][C12_Step]_vars

\* the image the mapper is said to produce
ExpectedImage(d) ==
  IF d.sprites = "full" /\ d.art = "url" THEN "artwork"
  ELSE IF d.sprites # "absent" /\ d.front = "url" THEN "front"
  ELSE "empty"

\* C13: every detail record that has types is mapped, without a throw, to a
\* summary whose image is the official artwork when present, else the front
\* sprite when present, else the empty string.
C13_ImageFallback ==
  \A i \in DOMAIN responses :
    responses[i].kind = "json" /\ responses[i].types # "absent" =>
      /\ ~MapperThrows(variant, responses[i])
      /\ values[i] # NoValue
      /\ values[i].image = ExpectedImage(responses[i])

----------------------------------------------------------------------------
(* Claims about the detail view *)

\* the text with every form feed and every newline replaced by a space
Cleaned(text) ==
  [k \in 1..Len(text) |-> IF text[k] \in {FormFeed, Newline} THEN Space ELSE text[k]]

EnglishEntries(sp) ==
  {k \in 1..Len(sp.flavor_text_entries) : sp.flavor_text_entries[k].language = "en"}

\* C14: the description shown contains neither a form feed nor a newline, and
\* is the text of an English entry with each of these characters replaced by a
\* space and every other character kept in place.
C14_NoControlChars ==
  shown.rendered /\ shown.flavor # <<>> =>
    /\ \A k \in 1..Len(shown.flavor) : shown.flavor[k] \notin {FormFeed, Newline}
    /\ \E k \in EnglishEntries(speciesData) :
         shown.flavor = Cleaned(speciesData.flavor_text_entries[k].flavor_text)

\* C15: the description shown is taken from the first entry, in list order,
\* whose language is 'en'; it is empty when there is no such entry, when the
\* list is empty, when the record has no list and when no record is loaded.
C15_FirstEnglish ==
  shown.rendered =>
    LET es == speciesData.flavor_text_entries
        en == EnglishEntries(speciesData)
    IN  IF speciesData.loaded /\ speciesData.hasEntries /\ en # {}
        THEN \E k \in en :
               /\ \A j \in en : k <= j
               /\ shown.flavor = ReplaceFormFeed(es[k].flavor_text)
        ELSE shown.flavor = <<>>

\* C15 witness: two English entries with different texts, rendered.
C15_Witness ==
  /\ shown.rendered
  /\ Len(speciesData.flavor_text_entries) = 2
  /\ EnglishEntries(speciesData) = {1, 2}
  /\ speciesData.flavor_text_entries[1].flavor_text = <<"a">>
  /\ speciesData.flavor_text_entries[2].flavor_text = <<"a", "a">>
  /\ shown.flavor = <<"a">>

IsDigit(c) == \E d \in 1..10 : DigitChars[d] = c
DigitValue(c) == (CHOOSE d \in 1..10 : DigitChars[d] = c) - 1

\* the number a sequence of digits denotes
RECURSIVE NumberOf(_)
NumberOf(digits) ==
  IF digits = <<>> THEN 0
  ELSE 10 * NumberOf(SubSeq(digits, 1, Len(digits) - 1)) + DigitValue(digits[Len(digits)])

\* str is the decimal numeral of value / 10 with exactly one digit after the
\* point and no leading zero, followed by the unit
ShowsTenths(str, value, unit) ==
  LET n == Len(str) - Len(unit)
  IN  /\ n >= 3
      /\ SubSeq(str, n + 1, Len(str)) = unit
      /\ str[n - 1] = "."
      /\ \A k \in (1..n) \ {n - 1} : IsDigit(str[k])
      /\ n > 3 => str[1] # "0"
      /\ 10 * NumberOf(SubSeq(str, 1, n - 2)) + DigitValue(str[n]) = value

\* C16: the height shown is height / 10 with exactly one decimal digit and the
\* unit m, the weight shown is weight / 10 with exactly one decimal digit and the
\* unit kg.
C16_OneDecimal ==
  shown.rendered =>
    /\ ShowsTenths(shown.height, pokemonData.height, <<" ", "m">>)
    /\ ShowsTenths(shown.weight, pokemonData.weight, <<" ", "k", "g">>)

\* C16 witness: height 7 is shown as 0.7 m and weight 690 as 69.0 kg.
C16_Witness ==
  /\ pokemonData.height = 7
  /\ pokemonData.weight = 690
  /\ shown.height = <<"0", ".", "7", " ", "m">>
  /\ shown.weight = <<"6", "9", ".", "0", " ", "k", "g">>

----------------------------------------------------------------------------
(* Claims about responses that arrive late *)

\* the screen that called fetchDetails for f is no longer mounted
ScreenGone(f) == ~detailMounted \/ f.inst # detailInst

C17_Step ==
  \A f \in fetches :
    ScreenGone(f) /\ f \notin fetches' =>
      /\ pokemon' = pokemon
      /\ species' = species
      /\ detailsLoading' = detailsLoading
      /\ error' = error
      /\ allPokemons' = allPokemons

----------------------------------------------------------------------------
(* Claims about the concurrency of the detail requests *)

C18_Step ==
  /\ listPc = "awaitList" /\ listPc' # "error" =>
       /\ DOMAIN detailReq' = DOMAIN results'
       /\ \A k \in DOMAIN results' : detailReq'[k] = "pending"
  /\ listPc # "awaitList" =>
       /\ DOMAIN detailReq' = DOMAIN detailReq
       /\ PendingDetails(detailReq') \subseteq PendingDetails(detailReq)

\* C18: the step in which the list response arrives leaves one request on the
\* wire for every reference of the response, before any of them has settled,
\* and no later step issues a detail request.
C18_AllIssuedAtOnce == [][C18_Step]_vars

\* C18 witness: the requests of at least two references are on the wire and
\* none has settled.
C18_Witness ==
  /\ listPc = "awaitAll"
  /\ Len(results) >= 2
  /\ PendingDetails(detailReq) = DOMAIN results

\* C19 as stated: the fetch has ended, and loading is over, only when no detail
\* request is outstanding.
C19_EndsAfterAllSettled ==
  /\ listPc \in {"success", "error"} => PendingDetails(detailReq) = {}
  /\ HasLoading(variant) /\ ~loading => PendingDetails(detailReq) = {}

\* C19 amended: the fetch ends in success only when no detail request is
\* outstanding; it ends in failure at the list response or at the first failing
\* detail response, whatever is outstanding; loading is over exactly when the
\* fetch has ended.
C19_SuccessAfterAllSettled ==
  /\ listPc = "success" => PendingDetails(detailReq) = {}
  /\ listPc = "error" =>
       \/ failedAt = 0 /\ results = <<>>
       \/ /\ failedAt \in DOMAIN detailReq
          /\ detailReq[failedAt] = "settled"
          /\ DetailFails(variant, responses[failedAt])
  /\ HasLoading(variant) => (loading <=> listPc \in {"awaitList", "awaitAll"})

\* C19 witness: the fetch failed and its loading is over while a detail request
\* is still outstanding.
C19_Witness ==
  /\ listPc = "error"
  /\ HasLoading(variant)
  /\ ~loading
  /\ PendingDetails(detailReq) # {}

\* C20: when every detail response of a fetch of at least two references has
\* parsed as JSON, with or without the expected fields, the fetch succeeds and
\* stores one summary per reference.
C20_MalformedTolerated ==
  Len(results) >= 2 /\ (\A i \in DOMAIN responses : responses[i].kind = "json") =>
    /\ listPc = "success"
    /\ Len(allPokemons) = Len(results)

----------------------------------------------------------------------------
(* Claims about the fade sequencing of the animated screen *)

C21_Step ==
  variant = "animated" =>
    /\ currentPage' # currentPage =>
         /\ listOpacity = 0 /\ listOpacity' = 0
         /\ scrollOffset' = 0
         /\ timers' = timers + 1
    /\ scrollOffset = 1 /\ scrollOffset' = 0 => listOpacity = 0 /\ listOpacity' = 0
    /\ anim'.kind = "fadeIn" /\ anim.kind # "fadeIn" /\ pageReq.kind = "accepted" =>
         currentPage = pageReq.target

\* C21: on the animated screen the page is swapped only while the list opacity
\* is 0, the swap resets the scroll position in the same render while the
\* opacity is still 0 and schedules the fade-in; the scroll position is reset
\* only at opacity 0; and a fade-in begins only when the swap of the last
\* accepted transition has been made.
C21_FadeOrder == [][C21_Step]_vars

\* C22: once the animated screen has no animation, timer or queued call left, it
\* is on the page, and shows the slice, that the plain screen reaches with the
\* same collection and the same Next / Previous presses.
C22_SameAsPlain ==
  variant = "animated" /\ Quiescent =>
    /\ currentPage = plainPage
    /\ currentPokemons = CurrentPokemonsOf(allPokemons, plainPage)

\* C28: the animated screen is never left with the list not fully visible and
\* nothing to bring it back: no animation running, no timer pending and no
\* call queued.
C28_NeverStuck == variant = "animated" /\ Quiescent => listOpacity = 2

----------------------------------------------------------------------------
(* Claims about what page transitions leave alone *)

C23_Step ==
  /\ pageVars' # pageVars => allPokemons' = allPokemons /\ loading' = loading
  /\ allPokemons' # allPokemons =>
       /\ listPc = "awaitList" /\ listPc' = "success"
       /\ allPokemons = <<>>
       /\ \A k \in DOMAIN allPokemons' : allPokemons'[k].name = k
  /\ loading' # loading => listPc = "awaitList" /\ listPc' # "awaitList" /\ ~loading'
  /\ listPc # "awaitList" => listPc' = listPc

\* C23: a step that changes the page, the animation, the timers, the queue or
\* the scroll position changes neither the collection nor the loading flag; the
\* collection changes only in the step that completes the fetch, which happens at
\* most once and stores exactly the fetched summaries, and the loading flag
\* changes only when the fetch ends.
C23_Frame == [][C23_Step]_vars

\* C23 witness: an accepted transition from page 1 has been carried out on a
\* collection of three pages.
C23_Witness ==
  /\ Len(allPokemons) = 25
  /\ ~loading
  /\ pageReq = [kind |-> "accepted", from |-> 1, target |-> 2]
  /\ currentPage = 2
  /\ Quiescent

\* C24: on a paginated screen 1 <= currentPage <= max(1, totalPages).
C24_PageInBounds ==
  Paginated(variant) => 1 <= currentPage /\ currentPage <= Max(1, totalPages)

\* C24 witness: the animated screen is on its last page of three while a
\* setCurrentPage call is queued and another fade-out runs.
C24_Witness ==
  /\ variant = "animated"
  /\ totalPages = 3
  /\ currentPage = 3
  /\ jsQueue # <<>>
  /\ anim.kind = "fadeOut"

----------------------------------------------------------------------------
(* Claims about a change of the detail screen's identifier *)

\* the fetchDetails calls of the mounted screen that have not settled
InstanceFetches == {f \in fetches : f.inst = detailInst}

\* C25: on a detail screen whose identifier changed at most once, when every
\* fetchDetails call has settled and no error is stored, the stored pokemon and
\* the stored species are those of the current identifier.
C25_LatestRecords ==
  /\ detailMounted /\ HasName(params) /\ nameChanges <= 1
  /\ InstanceFetches = {} /\ ~detailsLoading /\ error = NullError
  => pokemon = params["name"] /\ species = params["name"]

\* C26: loading is true while the fetchDetails call for the current identifier
\* has not settled.
C26_LoadingWhileCurrent ==
  detailMounted /\ (\E f \in InstanceFetches : f.gen = nameChanges) => detailsLoading

\* C27: on a detail screen whose identifier changed at most once, when every
\* fetchDetails call has settled and both stored records are those of the
\* current identifier (its fetch succeeded), the screen shows the record and
\* error is null.
C27_LatestSuccessShown ==
  /\ detailMounted /\ HasName(params) /\ nameChanges <= 1
  /\ InstanceFetches = {}
  /\ pokemon = params["name"] /\ species = params["name"]
  => error = NullError /\ DetailView = "record"

----------------------------------------------------------------------------
(* Claims about the two phases of fetchDetails *)

C29_Step ==
  /\ \A f \in fetches \ fetches' : \A out \in DetailsOutcomes :
       out.kind # "json" /\ Live(f) /\ SpeciesResponse(f, out) =>
         /\ DetailView' = "error"
         /\ error' # NullError
         /\ out.kind = "http" =>
              error' = [text |-> "Failed to fetch species: ", status |-> out.status]
         /\ species' = species
         /\ pokemon' = pokemon
         /\ nameChanges = 0 => species' = 0 /\ pokemon' = f.name /\ DetailView = "loading"
  /\ nameChanges' = 0 /\ pokemon' # 0 /\ species' = 0 => DetailView' # "record"

SameCall(f, g) == f.inst = g.inst /\ f.gen = g.gen /\ f.name = g.name

C30_Step ==
  /\ \A g \in fetches' \ fetches :
       \/ /\ g.pc = "pokemon"
          /\ params' # params \/ detailInst' # detailInst
          /\ g.name = params'["name"]
       \/ /\ g.pc = "species"
          /\ \E f \in fetches \ fetches' :
               /\ f.pc = "pokemon"
               /\ SameCall(f, g)
               /\ PokemonResponse(f, [kind |-> "json", status |-> 200])
  /\ \A f \in fetches \ fetches' : \A out \in DetailsOutcomes :
       out.kind # "json" /\ PokemonResponse(f, out) =>
         ~\E g \in fetches' : SameCall(f, g)

\* C30: a request appears on the wire only as the pokemon request of a call
\* started for the screen's new identifier, or as the species request of a call
\* whose pokemon response arrives in that step with a success status and a
\* parsed body, for the same identifier; a pokemon response that fails leaves no
\* request of its call.
C30_Sequenced == [][C30_Step]_vars

\* C30 witness: the pokemon record of a call is stored and its species request
\* is on the wire.
C30_Witness ==
  /\ detailMounted
  /\ detailsLoading
  /\ species = 0
  /\ \E f \in fetches : f.pc = "species" /\ f.inst = detailInst /\ pokemon = f.name

====
